---- MODULE Spec2Model ----
(***************************************************************************)
(* A model of sky, a command-line chat client: the conversation history    *)
(* and prompt assembly (ChatWithAI), the transcript logger                 *)
(* (ReportingToFile), the client factory and the REPL loop of main.        *)
(*                                                                         *)
(* Strings are sequences of one-character strings, so that trimming,       *)
(* formatting and concatenation are computed rather than assumed.          *)
(***************************************************************************)
EXTENDS Integers, Sequences, FiniteSets, TLC

VARIABLES
    pc,         \* where the process is: start, AWAITING_LINE, IN_FLIGHT, TERMINATED, ABORTED, EXIT_ERR
    stored,     \* the api_key of the persisted Config (confy)
    client,     \* which Chat implementation exists: none, ChatWithAI, ReportingToFile
    secrets,    \* ChatWithAI.secrets.api_key
    c,          \* ChatWithAI.c, the utterance history
    file,       \* content of the transcript file
    fileCreated,\* whether a transcript file exists
    stdout,     \* what the process printed to standard output
    stderr,     \* number of diagnostics printed by the logger's eprintln!
    net,        \* the HTTP request in flight (at most one)
    posts,      \* number of POST requests sent
    sayCalls,   \* number of ChatWithAI::say invocations
    linesRead,  \* number of lines the loop of main took from stdin
    skipped,    \* number of stdin read errors dropped by flatten()
    returned,   \* the AIResponse the last say call returned to its caller
    events,     \* the steps of the current say call, in order
    said,       \* the lines stdin delivered, in order
    got,        \* the choices[0].text of each parsed upstream response, in order
    rendered,   \* output of as_prompt when applied on its own
    entry       \* how the client came to be: none, main (chat_factory), lib (new)

vars == <<pc, stored, client, secrets, c, file, fileCreated, stdout, stderr, net,
          posts, sayCalls, linesRead, skipped, returned, events, said, got, rendered, entry>>

(***************************************************************************)
(* Bounds and input sets                                                   *)
(***************************************************************************)
MaxLines == 2
MaxHist == 4

None == "None"
ApiKeys == {None, "sk"}

\* lines typed by the user (stdin().lines() yields them without the newline)
UserLines == {<<"h", "i">>, <<" ">>}

\* texts the completion endpoint may return in choices[..].text
ReplyTexts == {<<" ">>, <<"o", "k">>, <<"\n", "a", " ", "b", " ">>}

\* bodies the endpoint may answer with: choices of length 0, 1 or 2
ReplyBodies ==
    {[choices |-> <<>>]}
    \cup {[choices |-> <<[text |-> t]>>] : t \in ReplyTexts}
    \cup {[choices |-> <<[text |-> <<"o", "k", "\n">>], [text |-> <<" ", "x">>]>>]}

\* entries for histories given to as_prompt on its own
HistTexts == {<<>>, <<"h", "i">>, <<" ", "o", "k">>}

RECURSIVE SeqsUpTo(_, _)
SeqsUpTo(S, n) ==
    IF n = 0 THEN {<<>>}
    ELSE LET shorter == SeqsUpTo(S, n - 1)
         IN shorter \cup {Append(s, x) : s \in {t \in shorter : Len(t) = n - 1}, x \in S}

(***************************************************************************)
(* Strings                                                                 *)
(***************************************************************************)
White_Space == {" ", "\t", "\n", "\r", "\f"}

RECURSIVE trim_start(_)
trim_start(s) ==
    IF s # <<>> /\ Head(s) \in White_Space THEN trim_start(Tail(s)) ELSE s

RECURSIVE trim_end(_)
trim_end(s) ==
    IF s # <<>> /\ s[Len(s)] \in White_Space
    THEN trim_end(SubSeq(s, 1, Len(s) - 1))
    ELSE s

\* mutant: only the leading whitespace is removed
trim_leading_only(s) == trim_start(s)

trim(s) == trim_end(trim_start(s))

RECURSIVE collect(_)
collect(ss) == IF ss = <<>> THEN <<>> ELSE Head(ss) \o collect(Tail(ss))

PRELUDE ==
    <<"T", "h", "e", " ", "f", "o", "l", "l", "o", "w", "i", "n", "g", " ", "i", "s",
       " ", "a", " ", "c", "o", "n", "v", "e", "r", "s", "a", "t", "i", "o", "n", " ",
       "b", "e", "t", "w", "e", "e", "n", " ", "y", "o", "u", " ", "a", "n", "d", " ",
       "a", "n", " ", "A", "I", " ", "a", "s", "s", "i", "s", "t", "a", "n", "t", " ",
       "n", "a", "m", "e", "d", " ", "S", "k", "y", ".", " ", "S", "k", "y", " ", "i",
       "s", " ", "h", "e", "l", "p", "f", "u", "l", ",", " ", "c", "r", "e", "a", "t",
       "i", "v", "e", ",", " ", "c", "l", "e", "v", "e", "r", ",", " ", "a", "n", "d",
       " ", "v", "e", "r", "y", " ", "f", "r", "i", "e", "n", "d", "l", "y", ".">>


(***************************************************************************)
(* AIResponse and its Display                                              *)
(***************************************************************************)
\* impl Display for AIResponse: choices.get(0).expect(..).text.trim()
\* (only evaluated where the choices are not empty; the expect is a guard
\* of the actions that format a response)
to_string(res) == trim(res.choices[1].text)

(***************************************************************************)
(* ChatWithAI: prompt assembly                                             *)
(***************************************************************************)
Min(a, b) == IF a < b THEN a ELSE b

\* slice::chunks(n): consecutive slices of n entries, the last one shorter
chunks(h, n) ==
    [i \in 1..((Len(h) + n - 1) \div n) |-> SubSeq(h, (i - 1) * n + 1, Min(i * n, Len(h)))]

\* mutant: a complete pair is rendered without its closing newline
render_unclosed(chunk) ==
    IF Len(chunk) = 2
    THEN <<"Y", "o", "u", ":", " ">> \o chunk[1] \o <<"\n", "S", "k", "y", ":", " ">>
         \o chunk[2]
    ELSE IF Len(chunk) = 1
    THEN <<"Y", "o", "u", ":", " ">> \o chunk[1] \o <<"\n", "S", "k", "y", ":">>
    ELSE <<>>

\* the closure of dialogue's filter_map, on one chunk
render(chunk) ==
    IF Len(chunk) = 2
    THEN <<"Y", "o", "u", ":", " ">> \o chunk[1] \o <<"\n", "S", "k", "y", ":", " ">>
         \o chunk[2] \o <<"\n">>
    ELSE IF Len(chunk) = 1
    THEN <<"Y", "o", "u", ":", " ">> \o chunk[1] \o <<"\n", "S", "k", "y", ":">>
    ELSE <<>>

dialogue(h) ==
    LET ch == chunks(h, 2)
    IN collect([i \in 1..Len(ch) |-> render(ch[i])])

as_prompt(h) == PRELUDE \o <<"\n">> \o dialogue(h)

\* the JSON body and the Authorization header of the request say builds
request(h, key) ==
    [model             |-> "text-davinci-003",
     prompt            |-> as_prompt(h),
     temperature       |-> "0.9",
     max_tokens        |-> 150,
     top_p             |-> 1,
     frequency_penalty |-> "0.0",
     presence_penalty  |-> "0.6",
     stop              |-> <<"You:", "Sky:">>,
     authorization     |-> <<"Bearer", key>>]

(***************************************************************************)
(* ChatWithAI::say, in its two halves around the blocking POST             *)
(***************************************************************************)
\* mutant: the entry is put in front of the history
push_front(h, x) == <<x>> \o h

\* Vec::push
push(h, x) == Append(h, x)

\* mutant: the request is sent whether or not there is a key
post_unchecked(h, key) == <<request(h, key)>>

\* ureq::post(..).set("Authorization", .. api_key.expect(..) ..).send_json(req):
\* what goes on the wire; nothing when the expect on the key panics
post(h, key) == IF key = None THEN <<>> ELSE <<request(h, key)>>

\* mutant: the request is built before the utterance is pushed
say_begin_prompt_first(h, text, key) ==
    [c |-> push(h, text), wire |-> post(h, key)]

\* say up to send_json: push the utterance, then build and send the request
say_begin(h, text, key) ==
    LET h1 == push(h, text)
    IN [c |-> h1, wire |-> post(h1, key)]

\* mutant: the raw text of the first choice is pushed
say_end_raw(h, res) == push(h, res.choices[1].text)

\* say after into_json: self.c.push(res.to_string())
say_end(h, res) == push(h, to_string(res))

(***************************************************************************)
(* ReportingToFile: the lines written to the transcript                    *)
(***************************************************************************)
\* mutant: the You line is written without the utterance
you_line_blank(text) == <<"\n", "Y", "o", "u", ":", " ", "\n">>

you_line(text) == <<"\n", "Y", "o", "u", ":", " ">> \o text \o <<"\n">>

sky_line(reply) == <<"\n", "S", "k", "y", ":", " ">> \o reply \o <<"\n">>

\* File::write_fmt: on success the text is appended; a failed write appends nothing
write_fmt(f, text, ok) == IF ok THEN f \o text ELSE f

\* number of eprintln! diagnostics for a list of io results
diagnostics(results) == Cardinality({i \in 1..Len(results) : ~results[i]})

(***************************************************************************)
(* main: what the REPL prints                                              *)
(***************************************************************************)
\* fn prompt(): print!("You: ")
prompt == <<"Y", "o", "u", ":", " ">>

\* println!("\nSky: {response}\n")
reply_line(res) == <<"\n", "S", "k", "y", ":", " ">> \o to_string(res) \o <<"\n", "\n">>

(***************************************************************************)
(* Initial state                                                           *)
(***************************************************************************)
Idle ==
    /\ pc = "start"
    /\ client = "none"
    /\ secrets = None
    /\ file = <<>>
    /\ fileCreated = FALSE
    /\ stdout = <<>>
    /\ stderr = 0
    /\ net = <<>>
    /\ posts = 0
    /\ sayCalls = 0
    /\ linesRead = 0
    /\ skipped = 0
    /\ returned = <<>>
    /\ events = <<>>
    /\ said = <<>>
    /\ got = <<>>
    /\ rendered = <<>>
    /\ entry = "none"

Init ==
    /\ Idle
    /\ stored \in ApiKeys
    /\ c = <<>>

(***************************************************************************)
(* main, command None: load the config, build the client, first prompt     *)
(***************************************************************************)
\* confy::load fails: main returns the error
LoadFails ==
    /\ pc = "start"
    /\ pc' = "EXIT_ERR"
    /\ UNCHANGED <<stored, client, secrets, c, file, fileCreated, stdout, stderr, net,
                   posts, sayCalls, linesRead, skipped, returned, events, said, got, rendered>>
    /\ entry' = "main"

\* chat_factory(cfg, report) with cfg.api_key = None: panic!("need an api key")
FactoryNoKey ==
    /\ pc = "start"
    /\ stored = None
    /\ pc' = "ABORTED"
    /\ UNCHANGED <<stored, client, secrets, c, file, fileCreated, stdout, stderr, net,
                   posts, sayCalls, linesRead, skipped, returned, events, said, got, rendered>>
    /\ entry' = "main"

\* chat_factory(cfg, true): UNIX_EPOCH.elapsed() or File::create fails, the
\* error goes up through main's `?`
FactoryFileFails ==
    /\ pc = "start"
    /\ stored # None
    /\ pc' = "EXIT_ERR"
    /\ UNCHANGED <<stored, client, secrets, c, file, fileCreated, stdout, stderr, net,
                   posts, sayCalls, linesRead, skipped, returned, events, said, got, rendered>>
    /\ entry' = "main"

\* chat_factory(cfg, report) returns a client; main prints the first prompt
chat_factory(report) ==
    /\ pc = "start"
    /\ stored # None
    /\ secrets' = stored
    /\ c' = <<>>
    /\ client' = IF report THEN "ReportingToFile" ELSE "ChatWithAI"
    /\ fileCreated' = report
    /\ file' = <<>>
    /\ stdout' = stdout \o prompt
    /\ pc' = "AWAITING_LINE"
    /\ UNCHANGED <<stored, stderr, net, posts, sayCalls, linesRead, skipped, returned,
                   events, said, got, rendered>>
    /\ entry' = "main"

\* a caller of the library builds the client itself with ChatWithAI::new
\* (and ReportingToFile::new around it), whatever the key, and then drives
\* it as main's loop does
new(key, report) ==
    /\ pc = "start"
    /\ secrets' = key
    /\ c' = <<>>
    /\ client' = IF report THEN "ReportingToFile" ELSE "ChatWithAI"
    /\ fileCreated' = report
    /\ file' = <<>>
    /\ stdout' = stdout \o prompt
    /\ pc' = "AWAITING_LINE"
    /\ UNCHANGED <<stored, stderr, net, posts, sayCalls, linesRead, skipped, returned,
                   events, said, got, rendered>>
    /\ entry' = "lib"

(***************************************************************************)
(* The loop of main: for line in stdin().lines().flatten()                 *)
(***************************************************************************)
logged == client = "ReportingToFile"

\* mutant: a failed write of the You line ends the call before the delegate runs
ReadLine_strict(line, w1) ==
    /\ pc = "AWAITING_LINE"
    /\ linesRead + skipped < MaxLines
    /\ logged \/ w1
    /\ linesRead' = linesRead + 1
    /\ said' = Append(said, line)
    /\ file' = IF logged THEN write_fmt(file, you_line(line), w1) ELSE file
    /\ stderr' = IF logged THEN stderr + diagnostics(<<w1>>) ELSE stderr
    /\ LET begun == say_begin(c, line, secrets)
           before == (IF logged THEN <<"write_you">> ELSE <<>>)
                     \o <<"say", "push_user", "build_request">>
       IN IF ~w1
          THEN /\ events' = <<"write_you", "panic">>
               /\ pc' = "ABORTED"
               /\ UNCHANGED <<c, net, posts, sayCalls>>
          ELSE /\ sayCalls' = sayCalls + 1
               /\ c' = begun.c
               /\ net' = begun.wire
               /\ posts' = posts + Len(begun.wire)
               /\ IF begun.wire = <<>>
                  THEN /\ events' = before \o <<"panic">>
                       /\ pc' = "ABORTED"
                  ELSE /\ events' = before \o <<"post">>
                       /\ pc' = "IN_FLIGHT"
    /\ UNCHANGED <<stored, client, secrets, fileCreated, stdout, skipped, returned,
                   got, rendered, entry>>

\* stdin delivers a line and main calls chat.say(line). The step runs
\* ReportingToFile::say up to the delegate call (when the client is the
\* logger) and ChatWithAI::say up to the moment the POST is on the wire:
\* push the line, build the request from as_prompt, take the key
\* (panic when it is absent), send.
ReadLine(line, w1) ==
    /\ pc = "AWAITING_LINE"
    /\ linesRead + skipped < MaxLines
    /\ logged \/ w1
    /\ linesRead' = linesRead + 1
    /\ said' = Append(said, line)
    /\ file' = IF logged THEN write_fmt(file, you_line(line), w1) ELSE file
    /\ stderr' = IF logged THEN stderr + diagnostics(<<w1>>) ELSE stderr
    /\ sayCalls' = sayCalls + 1
    /\ LET begun == say_begin(c, line, secrets)
           before == (IF logged THEN <<"write_you">> ELSE <<>>)
                     \o <<"say", "push_user", "build_request">>
       IN /\ c' = begun.c
          /\ net' = begun.wire
          /\ posts' = posts + Len(begun.wire)
          /\ IF begun.wire = <<>>
             THEN /\ events' = before \o <<"panic">>
                  /\ pc' = "ABORTED"
             ELSE /\ events' = before \o <<"post">>
                  /\ pc' = "IN_FLIGHT"
    /\ UNCHANGED <<stored, client, secrets, fileCreated, stdout, skipped, returned,
                   got, rendered, entry>>

\* stdin delivers a read error: flatten() drops it and the loop goes on
ReadError ==
    /\ pc = "AWAITING_LINE"
    /\ linesRead + skipped < MaxLines
    /\ skipped' = skipped + 1
    /\ UNCHANGED <<pc, stored, client, secrets, c, file, fileCreated, stdout, stderr, net,
                   posts, sayCalls, linesRead, returned, events, said, got, rendered, entry>>

\* mutant: end of input is not noticed and the loop keeps waiting
Eof_keeps_waiting ==
    /\ pc = "AWAITING_LINE"
    /\ UNCHANGED vars

\* end of input: the loop ends and main returns Ok(())
Eof ==
    /\ pc = "AWAITING_LINE"
    /\ pc' = "TERMINATED"
    /\ UNCHANGED <<stored, client, secrets, c, file, fileCreated, stdout, stderr, net,
                   posts, sayCalls, linesRead, skipped, returned, events, said, got, rendered, entry>>

(***************************************************************************)
(* The answer of the completion endpoint                                   *)
(***************************************************************************)
\* mutant: a failed request is dropped and the loop goes on to the next line
SendFails_recovers(kind) ==
    /\ pc = "IN_FLIGHT"
    /\ events' = events \o <<kind>>
    /\ net' = <<>>
    /\ stdout' = stdout \o prompt
    /\ pc' = "AWAITING_LINE"
    /\ UNCHANGED <<stored, client, secrets, c, file, fileCreated, stderr,
                   posts, sayCalls, linesRead, skipped, returned, said, got, rendered, entry>>

\* send_json returns Err (transport failure, or a status ureq reports as an
\* error): .expect("ureq works") panics
SendFails(kind) ==
    /\ pc = "IN_FLIGHT"
    /\ events' = events \o <<kind, "panic">>
    /\ net' = <<>>
    /\ pc' = "ABORTED"
    /\ UNCHANGED <<stored, client, secrets, c, file, fileCreated, stdout, stderr,
                   posts, sayCalls, linesRead, skipped, returned, said, got, rendered, entry>>

\* the body is not an AIResponse: into_json returns Err, .expect panics
ParseFails ==
    /\ pc = "IN_FLIGHT"
    /\ events' = events \o <<"response", "unparsable", "panic">>
    /\ net' = <<>>
    /\ pc' = "ABORTED"
    /\ UNCHANGED <<stored, client, secrets, c, file, fileCreated, stdout, stderr,
                   posts, sayCalls, linesRead, skipped, returned, said, got, rendered, entry>>

\* the body parses and choices is empty: res.to_string() panics in Display,
\* before the push of the reply
NoChoice(res) ==
    /\ pc = "IN_FLIGHT"
    /\ res.choices = <<>>
    /\ events' = events \o <<"response", "parsed", "panic">>
    /\ net' = <<>>
    /\ pc' = "ABORTED"
    /\ UNCHANGED <<stored, client, secrets, c, file, fileCreated, stdout, stderr,
                   posts, sayCalls, linesRead, skipped, returned, said, got, rendered, entry>>

\* the body parses: ChatWithAI::say pushes the formatted reply and returns
\* res; the logger (if any) writes the Sky line and flushes; main prints the
\* reply and the next prompt
Respond(res, w2, fl) ==
    /\ pc = "IN_FLIGHT"
    /\ res.choices # <<>>
    /\ logged \/ (w2 /\ fl)
    /\ c' = say_end(c, res)
    /\ got' = Append(got, res.choices[1].text)
    /\ returned' = <<res>>
    /\ file' = IF logged THEN write_fmt(file, sky_line(to_string(res)), w2) ELSE file
    /\ stderr' = IF logged THEN stderr + diagnostics(<<w2, fl>>) ELSE stderr
    /\ events' = events \o <<"response", "parsed", "push_reply", "say_return">>
                        \o (IF logged THEN <<"write_sky", "flush", "return">> ELSE <<>>)
    /\ stdout' = stdout \o reply_line(res) \o prompt
    /\ net' = <<>>
    /\ pc' = "AWAITING_LINE"
    /\ UNCHANGED <<stored, client, secrets, fileCreated, posts, sayCalls, linesRead,
                   skipped, said, rendered, entry>>

(***************************************************************************)
(* Specifications                                                          *)
(***************************************************************************)
Next ==
    \/ LoadFails
    \/ FactoryNoKey
    \/ FactoryFileFails
    \/ \E report \in BOOLEAN : chat_factory(report)
    \/ \E key \in ApiKeys, report \in BOOLEAN : new(key, report)
    \/ \E line \in UserLines, w1 \in BOOLEAN : ReadLine(line, w1)
    \/ ReadError
    \/ Eof
    \/ \E kind \in {"transport", "status"} : SendFails(kind)
    \/ ParseFails
    \/ \E res \in ReplyBodies : NoChoice(res)
    \/ \E res \in ReplyBodies, w2 \in BOOLEAN, fl \in BOOLEAN : Respond(res, w2, fl)

Spec == Init /\ [][Next]_vars

\* every turn's answer arrives and stdin is finite
FairSpec == Spec /\ WF_vars(Next)

\* as_prompt on its own, over every history up to MaxHist entries
InitPrompt ==
    /\ Idle
    /\ stored = None
    /\ c \in SeqsUpTo(HistTexts, MaxHist)

ApplyAsPrompt ==
    /\ pc = "start"
    /\ rendered' = as_prompt(c)
    /\ pc' = "rendered"
    /\ UNCHANGED <<stored, client, secrets, c, file, fileCreated, stdout, stderr, net,
                   posts, sayCalls, linesRead, skipped, returned, events, said, got, entry>>

NextPrompt == ApplyAsPrompt

PromptSpec == InitPrompt /\ [][NextPrompt]_vars

(***************************************************************************)
(* Vocabulary of the properties, stated apart from the definitions above   *)
(***************************************************************************)
MinOf(S) == CHOOSE x \in S : \A y \in S : x <= y

MaxOf(S) == CHOOSE x \in S : \A y \in S : x >= y

Last(s) == s[Len(s)]

IsPrefix(s, t) == Len(s) <= Len(t) /\ SubSeq(t, 1, Len(s)) = s

EndsWith(t, s) == Len(s) <= Len(t) /\ SubSeq(t, Len(t) - Len(s) + 1, Len(t)) = s

\* positions of s that hold no whitespace
NonWs(s) == {i \in 1..Len(s) : s[i] \notin White_Space}

\* s from its first to its last non-whitespace character
Stripped(s) ==
    IF NonWs(s) = {} THEN <<>> ELSE SubSeq(s, MinOf(NonWs(s)), MaxOf(NonWs(s)))

NoEdgeWs(s) == s = <<>> \/ (s[1] \notin White_Space /\ s[Len(s)] \notin White_Space)

YouLabel == <<"Y", "o", "u", ":", " ">>

SkyLabel == <<"S", "k", "y", ":">>

\* "You: {u}\nSky: {a}\n" and "You: {u}\nSky:"
Closed(u, a) == YouLabel \o u \o <<"\n">> \o SkyLabel \o <<" ">> \o a \o <<"\n">>

Open(u) == YouLabel \o u \o <<"\n">> \o SkyLabel

\* one block per consecutive pair of entries, from the front
RECURSIVE Blocks(_)
Blocks(h) ==
    IF h = <<>> THEN <<>>
    ELSE IF Len(h) = 1 THEN Open(h[1])
    ELSE Closed(h[1], h[2]) \o Blocks(SubSeq(h, 3, Len(h)))

\* the closed blocks of the first n exchanges of what stdin delivered and
\* what the endpoint answered
RECURSIVE Exchanges(_)
Exchanges(n) ==
    IF n = 0 THEN <<>> ELSE Exchanges(n - 1) \o Closed(said[n], Stripped(got[n]))

\* the history those exchanges make: said[1], reply 1, said[2], reply 2, ...
Told ==
    [i \in 1..(Len(said) + Len(got)) |->
        IF i % 2 = 1 THEN said[(i + 1) \div 2] ELSE Stripped(got[i \div 2])]

\* the transcript of the first n lines: each You line, and the Sky line of
\* each one that was answered
RECURSIVE Transcript(_)
Transcript(n) ==
    IF n = 0 THEN <<>>
    ELSE Transcript(n - 1)
         \o <<"\n">> \o YouLabel \o said[n] \o <<"\n">>
         \o (IF n <= Len(got)
             THEN <<"\n">> \o SkyLabel \o <<" ">> \o Stripped(got[n]) \o <<"\n">>
             ELSE <<>>)

\* what main has printed after n replies: the prompt, then reply and prompt
RECURSIVE Printed(_)
Printed(n) ==
    IF n = 0 THEN YouLabel
    ELSE Printed(n - 1) \o <<"\n">> \o SkyLabel \o <<" ">> \o Stripped(got[n])
         \o <<"\n", "\n">> \o YouLabel

FullSay ==
    <<"say", "push_user", "build_request", "post", "response", "parsed", "push_reply",
      "say_return">>

FullReport == <<"write_you">> \o FullSay \o <<"write_sky", "flush", "return">>

\* the steps of the call without the marks of how it failed
Steps(ev) ==
    SelectSeq(ev, LAMBDA e : e \notin {"panic", "transport", "status", "unparsable"})

(***************************************************************************)
(* Properties                                                              *)
(***************************************************************************)
\* C1: a say(u) call that succeeds with upstream text r leaves the history
\* exactly two entries longer: the old history, then u, then r trimmed.
\* The call's first half adds u and nothing else; its second half adds the
\* trimmed r and nothing else.
C1_SayAppendsTwo ==
    [][/\ (pc = "AWAITING_LINE" /\ linesRead' = linesRead + 1)
            => c' = c \o <<Last(said')>>
       /\ (pc = "IN_FLIGHT" /\ pc' = "AWAITING_LINE")
            => /\ Len(got') = Len(got) + 1
               /\ c # <<>> /\ Last(c) = Last(said)
               /\ c' = c \o <<Stripped(Last(got'))>>
               /\ Len(c') = Len(SubSeq(c, 1, Len(c) - 1)) + 2]_vars

C1_Witness ==
    /\ pc = "AWAITING_LINE"
    /\ Len(c) = 4
    /\ got[2] = <<"\n", "a", " ", "b", " ">>
    /\ c[3] = <<"h", "i">>
    /\ c[4] = <<"a", " ", "b">>

\* C2: no request is issued while the API key is absent: chat_factory on a
\* Config without a key fails before a client or a transcript file exists,
\* and say on a client without a key fails before the POST is sent.
C2_NoRequestWithoutKey ==
    /\ \A i \in 1..Len(net) : net[i].authorization[2] # None
    /\ secrets = None => (posts = 0 /\ net = <<>> /\ pc # "IN_FLIGHT")
    /\ (secrets = None /\ sayCalls > 0) => (pc = "ABORTED" /\ sayCalls = 1)
    /\ (entry = "main" /\ stored = None)
         => /\ client = "none"
            /\ ~fileCreated
            /\ sayCalls = 0
            /\ pc \in {"ABORTED", "EXIT_ERR"}

C2_Witness ==
    /\ client = "ReportingToFile"
    /\ secrets = None
    /\ sayCalls = 1
    /\ Last(events) = "panic"
    /\ posts = 0
    /\ pc = "ABORTED"

\* C3: as_prompt(h) is the preamble, a newline, and one block per
\* consecutive pair of entries: closed for a complete pair, open for a last
\* unpaired entry; so an even non-empty history ends in "Sky: <last>\n" and
\* an odd one ends in "You: <last>\nSky:" with no newline after it.
C3_PromptShape ==
    pc = "rendered" =>
        /\ rendered = PRELUDE \o <<"\n">> \o Blocks(c)
        /\ (c # <<>> /\ Len(c) % 2 = 0)
             => EndsWith(rendered, SkyLabel \o <<" ">> \o Last(c) \o <<"\n">>)
        /\ Len(c) % 2 = 1
             => /\ EndsWith(rendered, YouLabel \o Last(c) \o <<"\n">> \o SkyLabel)
                /\ Last(rendered) # "\n"

C3_Witness ==
    /\ pc = "rendered"
    /\ Len(c) = 4
    /\ c[2] = <<" ", "o", "k">>
    /\ c[4] = <<>>

\* C4: the reply text a say call hands back (the Display of the returned
\* AIResponse, which is what the caller prints) has no leading or trailing
\* whitespace, with either client.
C4_ReplyTrimmed ==
    returned # <<>> =>
        LET reply == to_string(returned[1])
        IN /\ NoEdgeWs(reply)
           /\ reply = Stripped(Last(got))
           /\ pc \in {"AWAITING_LINE", "TERMINATED"}
                => EndsWith(stdout, <<"\n">> \o SkyLabel \o <<" ">> \o reply
                                     \o <<"\n", "\n">> \o YouLabel)

C4_Witness ==
    /\ client = "ReportingToFile"
    /\ pc = "AWAITING_LINE"
    /\ returned # <<>>
    /\ returned[1].choices[1].text = <<"\n", "a", " ", "b", " ">>

\* C5: a ReportingToFile::say call writes the You line, then runs the
\* inner say once, then writes the Sky line, then flushes, and returns the
\* inner response; the inner client sees one call per logged turn and the
\* history it would have without the logger.
C5_LoggerOrder ==
    logged =>
        /\ IsPrefix(Steps(events), FullReport)
        /\ pc = "IN_FLIGHT" => Steps(events) = SubSeq(FullReport, 1, 5)
        /\ (pc = "AWAITING_LINE" /\ linesRead > 0)
             => /\ events = FullReport
                /\ returned[1].choices[1].text = Last(got)
                /\ c = Told
        /\ sayCalls = linesRead
        /\ stderr = 0 => file = Transcript(Len(said))

C5_Witness ==
    /\ logged
    /\ pc = "AWAITING_LINE"
    /\ linesRead = 2
    /\ stderr = 0
    /\ said[2] = <<"h", "i">>
    /\ got[2] = <<"o", "k">>
    /\ EndsWith(file, <<"\n", "Y", "o", "u", ":", " ", "h", "i", "\n",
                        "\n", "S", "k", "y", ":", " ", "o", "k", "\n">>)

\* C6: whichever of the two writes and the flush fail, the inner say still
\* runs once for the line, the same reply is returned and the history is
\* what it is with all writes succeeding.
C6_WriteFailuresIgnored ==
    (logged /\ stderr > 0) =>
        /\ sayCalls = linesRead
        /\ pc = "IN_FLIGHT" => c = Told
        /\ pc = "ABORTED" => c = Told
        /\ pc \in {"AWAITING_LINE", "TERMINATED"}
             => /\ Len(got) = linesRead
                /\ c = Told
                /\ returned # <<>>
                /\ returned[1].choices[1].text = Last(got)

C6_Witness ==
    /\ logged
    /\ linesRead = 1
    /\ stderr = 3
    /\ file = <<>>
    /\ pc = "AWAITING_LINE"
    /\ returned # <<>>

\* C7: the REPL calls say once per line read, one request at a time, in
\* input order, and on end of input terminates; when no turn fails it
\* eventually terminates with as many say calls as lines read.
C7_ReplTerminates ==
    /\ [](/\ sayCalls = linesRead
          /\ Len(net) <= 1
          /\ pc = "IN_FLIGHT" <=> Len(net) = 1
          /\ Len(said) = linesRead
          /\ pc \in {"AWAITING_LINE", "TERMINATED"} => (c = Told /\ posts = linesRead))
    /\ ([](pc \notin {"ABORTED", "EXIT_ERR"})
          => <>(pc = "TERMINATED" /\ sayCalls = linesRead /\ posts = linesRead))

C7_Witness ==
    /\ pc = "TERMINATED"
    /\ linesRead = 2
    /\ sayCalls = 2
    /\ posts = 2
    /\ stdout = Printed(2)

\* C8: a turn that fails (request not delivered, error status, body that
\* does not parse, no choice) aborts the process: no reply is returned or
\* printed for it and no later line is processed.
C8_FailureAborts ==
    /\ pc \in {"AWAITING_LINE", "TERMINATED"} => Len(got) = linesRead
    /\ (pc = "ABORTED" /\ sayCalls > 0)
         => /\ Len(got) = linesRead - 1
            /\ Len(c) = 2 * Len(got) + 1
            /\ stdout = Printed(Len(got))
            /\ returned # <<>> => (Len(got) > 0 /\ returned[1].choices[1].text = Last(got))
            /\ ~ENABLED Next

C8_Witness ==
    /\ pc = "ABORTED"
    /\ linesRead = 2
    /\ posts = 2
    /\ SubSeq(events, Len(events) - 1, Len(events)) = <<"parsed", "panic">>

\* C9: the history only grows at its end, user utterances sit at the even
\* (0-based) positions and the reply to each at the next one, and while
\* the REPL awaits a line its length is twice the number of completed turns.
C9_HistoryAppendOnly ==
    [][/\ IsPrefix(c, c')
       /\ IsPrefix(c', Told')
       /\ pc' = "AWAITING_LINE" => (Len(c') = 2 * Len(got') /\ Len(got') = linesRead')]_vars

C9_Witness ==
    /\ pc = "AWAITING_LINE"
    /\ Len(c) = 4
    /\ c[1] = <<" ">>
    /\ c[2] = <<>>
    /\ c[3] = <<"h", "i">>

\* C10: the utterance is in the history before the request is built: the
\* prompt in flight is the preamble, every earlier exchange in order, and
\* the open cue "You: {u}\nSky:"; the reply is not in the history until the
\* response has come.
C10_PromptHasUtterance ==
    pc = "IN_FLIGHT" =>
        /\ Len(net) = 1
        /\ Len(said) = Len(got) + 1
        /\ Len(c) = 2 * Len(got) + 1
        /\ Last(c) = Last(said)
        /\ net[1].prompt = PRELUDE \o <<"\n">> \o Exchanges(Len(got)) \o Open(Last(said))

C10_Witness ==
    /\ pc = "IN_FLIGHT"
    /\ Len(c) = 3
    /\ c[2] = <<"a", " ", "b">>
    /\ EndsWith(net[1].prompt, <<"S", "k", "y", ":", " ", "a", " ", "b", "\n",
                                 "Y", "o", "u", ":", " ", "h", "i", "\n", "S", "k", "y", ":">>)

====
